---------------------------- MODULE Spec2Model ----------------------------
(***************************************************************************)
(* Model of components/omega/perf/frontier/frontier_utils.py.              *)
(*                                                                         *)
(* A Python str is the sequence of the code points of its characters       *)
(* (ord of each character); the text of every literal is given in the      *)
(* comment above it.  List indices are 0-based as in the source: the       *)
(* Python expression lines[index] is lines[index + 1] here.                *)
(***************************************************************************)
EXTENDS Integers, Sequences, FiniteSets, TLC

(***************************************************************************)
(* Bounds of the model.                                                    *)
(***************************************************************************)
MaxLines == 6
MaxArgc == 4
MaxLen == 3

(***************************************************************************)
(* String literals of the source.                                          *)
(***************************************************************************)
\* ": Test command: "
CmdStr == <<58, 32, 84, 101, 115, 116, 32, 99, 111, 109, 109, 97, 110, 100, 58, 32>>
\* ": Working Directory:"
DirStr == <<58, 32, 87, 111, 114, 107, 105, 110, 103, 32, 68, 105, 114, 101, 99, 116, 111, 114, 121, 58>>
\* "Test"
TestStr == <<84, 101, 115, 116>>
\* "_NEWLINE_"
NewlineToken == <<95, 78, 69, 87, 76, 73, 78, 69, 95>>
\* ";"
Semi == <<59>>
\* ","
Comma == <<44>>
\* " "
Space == <<32>>
\* "aeiouAEIOU"
Vowels == <<97, 101, 105, 111, 117, 65, 69, 73, 79, 85>>

(***************************************************************************)
(* Python built-ins used by the source.                                    *)
(***************************************************************************)
SetMin(S) == CHOOSE x \in S : \A y \in S : x <= y

\* str.find(sub, start): the lowest 0-based index >= start where sub occurs
\* in s, or -1.
RECURSIVE FindFrom(_, _, _)
FindFrom(s, sub, start) ==
    IF start + Len(sub) > Len(s) THEN -1
    ELSE IF \A k \in 1..Len(sub) : s[start + k] = sub[k] THEN start
    ELSE FindFrom(s, sub, start + 1)

\* str.find(sub)
Find(s, sub) == FindFrom(s, sub, 0)

\* s[n:] for 0 <= n.
SliceFrom(s, n) == SubSeq(s, n + 1, Len(s))

\* str.split(sep) with a non-empty separator: never an empty list.
RECURSIVE StrSplit(_, _)
StrSplit(s, sep) ==
    LET p == Find(s, sep)
    IN  IF p < 0 THEN <<s>>
        ELSE <<SubSeq(s, 1, p)>> \o StrSplit(SliceFrom(s, p + Len(sep)), sep)

\* the code points c with chr(c).isspace(), the characters str.split() splits
\* on: \t \n \v \f \r, 0x1c-0x1f, space, 0x85, 0xa0 and the Unicode spaces
WhiteSpace ==
    {9, 10, 11, 12, 13, 28, 29, 30, 31, 32, 133, 160, 5760, 8192, 8193,
     8194, 8195, 8196, 8197, 8198, 8199, 8200, 8201, 8202, 8232, 8233, 8239,
     8287, 12288}

\* str.isspace() of one character
IsSpace(c) == c \in WhiteSpace

\* str.split() without argument: the maximal runs of non-whitespace.
RECURSIVE SplitWs(_)
SplitWs(s) ==
    IF s = <<>> THEN <<>>
    ELSE IF IsSpace(Head(s)) THEN SplitWs(Tail(s))
    ELSE LET n == SetMin({i \in 1..Len(s) : i = Len(s) \/ IsSpace(s[i + 1])})
         IN  <<SubSeq(s, 1, n)>> \o SplitWs(SliceFrom(s, n))

\* sep.join(parts)
RECURSIVE Join(_, _)
Join(parts, sep) ==
    IF parts = <<>> THEN <<>>
    ELSE IF Len(parts) = 1 THEN parts[1]
    ELSE parts[1] \o sep \o Join(Tail(parts), sep)

\* seq[::-1]
Reverse(seq) == [i \in 1..Len(seq) |-> seq[Len(seq) + 1 - i]]

\* The simple uppercase mappings of str.upper(): each <<lo, hi, step, delta>>
\* maps the code points lo, lo + step, ..., hi to themselves plus delta
\* (<<97, 122, 1, -32>> is a-z to A-Z).
UpperRuns ==
    <<<<97, 122, 1, -32>>, <<181, 181, 1, 743>>, <<224, 246, 1, -32>>,
      <<248, 254, 1, -32>>, <<255, 255, 1, 121>>, <<257, 303, 2, -1>>,
      <<305, 305, 1, -232>>, <<307, 311, 2, -1>>, <<314, 328, 2, -1>>,
      <<331, 375, 2, -1>>, <<378, 382, 2, -1>>, <<383, 383, 1, -300>>,
      <<384, 384, 1, 195>>, <<387, 389, 2, -1>>, <<392, 392, 1, -1>>, <<396,
      396, 1, -1>>, <<402, 402, 1, -1>>, <<405, 405, 1, 97>>, <<409, 409, 1,
      -1>>, <<410, 410, 1, 163>>, <<414, 414, 1, 130>>, <<417, 421, 2, -1>>,
      <<424, 424, 1, -1>>, <<429, 429, 1, -1>>, <<432, 432, 1, -1>>, <<436,
      438, 2, -1>>, <<441, 441, 1, -1>>, <<445, 445, 1, -1>>, <<447, 447, 1,
      56>>, <<453, 453, 1, -1>>, <<454, 454, 1, -2>>, <<456, 456, 1, -1>>,
      <<457, 457, 1, -2>>, <<459, 459, 1, -1>>, <<460, 460, 1, -2>>, <<462,
      476, 2, -1>>, <<477, 477, 1, -79>>, <<479, 495, 2, -1>>, <<498, 498,
      1, -1>>, <<499, 499, 1, -2>>, <<501, 501, 1, -1>>, <<505, 543, 2,
      -1>>, <<547, 563, 2, -1>>, <<572, 572, 1, -1>>, <<575, 576, 1,
      10815>>, <<578, 578, 1, -1>>, <<583, 591, 2, -1>>, <<592, 592, 1,
      10783>>, <<593, 593, 1, 10780>>, <<594, 594, 1, 10782>>, <<595, 595,
      1, -210>>, <<596, 596, 1, -206>>, <<598, 599, 1, -205>>, <<601, 601,
      1, -202>>, <<603, 603, 1, -203>>, <<604, 604, 1, 42319>>, <<608, 608,
      1, -205>>, <<609, 609, 1, 42315>>, <<611, 611, 1, -207>>, <<613, 613,
      1, 42280>>, <<614, 614, 1, 42308>>, <<616, 616, 1, -209>>, <<617, 617,
      1, -211>>, <<618, 618, 1, 42308>>, <<619, 619, 1, 10743>>, <<620, 620,
      1, 42305>>, <<623, 623, 1, -211>>, <<625, 625, 1, 10749>>, <<626, 626,
      1, -213>>, <<629, 629, 1, -214>>, <<637, 637, 1, 10727>>, <<640, 640,
      1, -218>>, <<642, 642, 1, 42307>>, <<643, 643, 1, -218>>, <<647, 647,
      1, 42282>>, <<648, 648, 1, -218>>, <<649, 649, 1, -69>>, <<650, 651,
      1, -217>>, <<652, 652, 1, -71>>, <<658, 658, 1, -219>>, <<669, 669, 1,
      42261>>, <<670, 670, 1, 42258>>, <<837, 837, 1, 84>>, <<881, 883, 2,
      -1>>, <<887, 887, 1, -1>>, <<891, 893, 1, 130>>, <<940, 940, 1, -38>>,
      <<941, 943, 1, -37>>, <<945, 961, 1, -32>>, <<962, 962, 1, -31>>,
      <<963, 971, 1, -32>>, <<972, 972, 1, -64>>, <<973, 974, 1, -63>>,
      <<976, 976, 1, -62>>, <<977, 977, 1, -57>>, <<981, 981, 1, -47>>,
      <<982, 982, 1, -54>>, <<983, 983, 1, -8>>, <<985, 1007, 2, -1>>,
      <<1008, 1008, 1, -86>>, <<1009, 1009, 1, -80>>, <<1010, 1010, 1, 7>>,
      <<1011, 1011, 1, -116>>, <<1013, 1013, 1, -96>>, <<1016, 1016, 1,
      -1>>, <<1019, 1019, 1, -1>>, <<1072, 1103, 1, -32>>, <<1104, 1119, 1,
      -80>>, <<1121, 1153, 2, -1>>, <<1163, 1215, 2, -1>>, <<1218, 1230, 2,
      -1>>, <<1231, 1231, 1, -15>>, <<1233, 1327, 2, -1>>, <<1377, 1414, 1,
      -48>>, <<4304, 4346, 1, 3008>>, <<4349, 4351, 1, 3008>>, <<5112, 5117,
      1, -8>>, <<7296, 7296, 1, -6254>>, <<7297, 7297, 1, -6253>>, <<7298,
      7298, 1, -6244>>, <<7299, 7300, 1, -6242>>, <<7301, 7301, 1, -6243>>,
      <<7302, 7302, 1, -6236>>, <<7303, 7303, 1, -6181>>, <<7304, 7304, 1,
      35266>>, <<7545, 7545, 1, 35332>>, <<7549, 7549, 1, 3814>>, <<7566,
      7566, 1, 35384>>, <<7681, 7829, 2, -1>>, <<7835, 7835, 1, -59>>,
      <<7841, 7935, 2, -1>>, <<7936, 7943, 1, 8>>, <<7952, 7957, 1, 8>>,
      <<7968, 7975, 1, 8>>, <<7984, 7991, 1, 8>>, <<8000, 8005, 1, 8>>,
      <<8017, 8023, 2, 8>>, <<8032, 8039, 1, 8>>, <<8048, 8049, 1, 74>>,
      <<8050, 8053, 1, 86>>, <<8054, 8055, 1, 100>>, <<8056, 8057, 1, 128>>,
      <<8058, 8059, 1, 112>>, <<8060, 8061, 1, 126>>, <<8112, 8113, 1, 8>>,
      <<8126, 8126, 1, -7205>>, <<8144, 8145, 1, 8>>, <<8160, 8161, 1, 8>>,
      <<8165, 8165, 1, 7>>, <<8526, 8526, 1, -28>>, <<8560, 8575, 1, -16>>,
      <<8580, 8580, 1, -1>>, <<9424, 9449, 1, -26>>, <<11312, 11359, 1,
      -48>>, <<11361, 11361, 1, -1>>, <<11365, 11365, 1, -10795>>, <<11366,
      11366, 1, -10792>>, <<11368, 11372, 2, -1>>, <<11379, 11379, 1, -1>>,
      <<11382, 11382, 1, -1>>, <<11393, 11491, 2, -1>>, <<11500, 11502, 2,
      -1>>, <<11507, 11507, 1, -1>>, <<11520, 11557, 1, -7264>>, <<11559,
      11559, 1, -7264>>, <<11565, 11565, 1, -7264>>, <<42561, 42605, 2,
      -1>>, <<42625, 42651, 2, -1>>, <<42787, 42799, 2, -1>>, <<42803,
      42863, 2, -1>>, <<42874, 42876, 2, -1>>, <<42879, 42887, 2, -1>>,
      <<42892, 42892, 1, -1>>, <<42897, 42899, 2, -1>>, <<42900, 42900, 1,
      48>>, <<42903, 42921, 2, -1>>, <<42933, 42947, 2, -1>>, <<42952,
      42954, 2, -1>>, <<42961, 42961, 1, -1>>, <<42967, 42969, 2, -1>>,
      <<42998, 42998, 1, -1>>, <<43859, 43859, 1, -928>>, <<43888, 43967, 1,
      -38864>>, <<65345, 65370, 1, -32>>, <<66600, 66639, 1, -40>>, <<66776,
      66811, 1, -40>>, <<66967, 67003, 2, -39>>, <<66968, 66977, 1, -39>>,
      <<66980, 66993, 1, -39>>, <<66996, 67001, 1, -39>>, <<67004, 67004, 1,
      -39>>, <<68800, 68850, 1, -64>>, <<71872, 71903, 1, -32>>, <<93792,
      93823, 1, -32>>, <<125218, 125251, 1, -34>>>>

\* The uppercase mappings of str.upper() to more than one character
\* (<<223, <<83, 83>>>> is sharp s to "SS").
UpperSpecial ==
    <<<<223, <<83, 83>>>>, <<329, <<700, 78>>>>, <<496, <<74, 780>>>>,
      <<912, <<921, 776, 769>>>>, <<944, <<933, 776, 769>>>>, <<1415,
      <<1333, 1362>>>>, <<7830, <<72, 817>>>>, <<7831, <<84, 776>>>>,
      <<7832, <<87, 778>>>>, <<7833, <<89, 778>>>>, <<7834, <<65, 702>>>>,
      <<8016, <<933, 787>>>>, <<8018, <<933, 787, 768>>>>, <<8020, <<933,
      787, 769>>>>, <<8022, <<933, 787, 834>>>>, <<8064, <<7944, 921>>>>,
      <<8065, <<7945, 921>>>>, <<8066, <<7946, 921>>>>, <<8067, <<7947,
      921>>>>, <<8068, <<7948, 921>>>>, <<8069, <<7949, 921>>>>, <<8070,
      <<7950, 921>>>>, <<8071, <<7951, 921>>>>, <<8072, <<7944, 921>>>>,
      <<8073, <<7945, 921>>>>, <<8074, <<7946, 921>>>>, <<8075, <<7947,
      921>>>>, <<8076, <<7948, 921>>>>, <<8077, <<7949, 921>>>>, <<8078,
      <<7950, 921>>>>, <<8079, <<7951, 921>>>>, <<8080, <<7976, 921>>>>,
      <<8081, <<7977, 921>>>>, <<8082, <<7978, 921>>>>, <<8083, <<7979,
      921>>>>, <<8084, <<7980, 921>>>>, <<8085, <<7981, 921>>>>, <<8086,
      <<7982, 921>>>>, <<8087, <<7983, 921>>>>, <<8088, <<7976, 921>>>>,
      <<8089, <<7977, 921>>>>, <<8090, <<7978, 921>>>>, <<8091, <<7979,
      921>>>>, <<8092, <<7980, 921>>>>, <<8093, <<7981, 921>>>>, <<8094,
      <<7982, 921>>>>, <<8095, <<7983, 921>>>>, <<8096, <<8040, 921>>>>,
      <<8097, <<8041, 921>>>>, <<8098, <<8042, 921>>>>, <<8099, <<8043,
      921>>>>, <<8100, <<8044, 921>>>>, <<8101, <<8045, 921>>>>, <<8102,
      <<8046, 921>>>>, <<8103, <<8047, 921>>>>, <<8104, <<8040, 921>>>>,
      <<8105, <<8041, 921>>>>, <<8106, <<8042, 921>>>>, <<8107, <<8043,
      921>>>>, <<8108, <<8044, 921>>>>, <<8109, <<8045, 921>>>>, <<8110,
      <<8046, 921>>>>, <<8111, <<8047, 921>>>>, <<8114, <<8122, 921>>>>,
      <<8115, <<913, 921>>>>, <<8116, <<902, 921>>>>, <<8118, <<913,
      834>>>>, <<8119, <<913, 834, 921>>>>, <<8124, <<913, 921>>>>, <<8130,
      <<8138, 921>>>>, <<8131, <<919, 921>>>>, <<8132, <<905, 921>>>>,
      <<8134, <<919, 834>>>>, <<8135, <<919, 834, 921>>>>, <<8140, <<919,
      921>>>>, <<8146, <<921, 776, 768>>>>, <<8147, <<921, 776, 769>>>>,
      <<8150, <<921, 834>>>>, <<8151, <<921, 776, 834>>>>, <<8162, <<933,
      776, 768>>>>, <<8163, <<933, 776, 769>>>>, <<8164, <<929, 787>>>>,
      <<8166, <<933, 834>>>>, <<8167, <<933, 776, 834>>>>, <<8178, <<8186,
      921>>>>, <<8179, <<937, 921>>>>, <<8180, <<911, 921>>>>, <<8182,
      <<937, 834>>>>, <<8183, <<937, 834, 921>>>>, <<8188, <<937, 921>>>>,
      <<64256, <<70, 70>>>>, <<64257, <<70, 73>>>>, <<64258, <<70, 76>>>>,
      <<64259, <<70, 70, 73>>>>, <<64260, <<70, 70, 76>>>>, <<64261, <<83,
      84>>>>, <<64262, <<83, 84>>>>, <<64275, <<1348, 1350>>>>, <<64276,
      <<1348, 1333>>>>, <<64277, <<1348, 1339>>>>, <<64278, <<1358,
      1350>>>>, <<64279, <<1348, 1341>>>>>>

\* str.upper() of one character: a string of one to three characters
UpperChar(c) ==
    IF \E i \in 1..Len(UpperSpecial) : UpperSpecial[i][1] = c
    THEN UpperSpecial[CHOOSE i \in 1..Len(UpperSpecial) : UpperSpecial[i][1] = c][2]
    ELSE LET hit(r) == /\ r[1] <= c /\ c <= r[2]
                       /\ (c - r[1]) % r[3] = 0
         IN  IF \E i \in 1..Len(UpperRuns) : hit(UpperRuns[i])
             THEN <<c + UpperRuns[CHOOSE i \in 1..Len(UpperRuns) : hit(UpperRuns[i])][4]>>
             ELSE <<c>>

\* str.upper()
RECURSIVE Upper(_)
Upper(s) == IF s = <<>> THEN <<>> ELSE UpperChar(Head(s)) \o Upper(Tail(s))

(***************************************************************************)
(* get_ctests: the call frame and one operator per block of the loop.      *)
(* The fields reads and origin are history: reads lists every lines[index] *)
(* the function evaluated (index and the role the line was read in);       *)
(* origin[k] is the index of the command line of the k-th record.          *)
(***************************************************************************)
\* lines 10-12
GcEnter(ctest_output) ==
    [pc |-> "while", exc |-> "none",
     lines |-> StrSplit(ctest_output, NewlineToken), index |-> 0,
     ctests |-> <<>>, Cmd |-> <<>>, Exe |-> <<>>, Dir |-> <<>>,
     result |-> <<>>, reads |-> <<>>, origin |-> <<>>]

\* the frame before the call
GcIdle ==
    [pc |-> "idle", exc |-> "none", lines |-> <<>>, index |-> 0,
     ctests |-> <<>>, Cmd |-> <<>>, Exe |-> <<>>, Dir |-> <<>>,
     result |-> <<>>, reads |-> <<>>, origin |-> <<>>]

GcRaise(f, e) == [f EXCEPT !.pc = "raised", !.exc = e]

\* GcCmd taking the first token of the command for Exe
GcCmd_FirstToken(f) ==
    LET line == f.lines[f.index + 1]
        g == [f EXCEPT !.index = f.index + 1,
                       !.reads = Append(f.reads, [idx |-> f.index, role |-> "cmd"])]
        posCmd == Find(line, CmdStr)
        Cmd == SliceFrom(line, posCmd + Len(CmdStr))
        toks == SplitWs(Cmd)
    IN  IF posCmd < 0 THEN g
        ELSE IF toks = <<>> THEN GcRaise([g EXCEPT !.Cmd = Cmd], "IndexError")
        ELSE [g EXCEPT !.Cmd = Cmd, !.Exe = toks[1], !.pc = "dir"]

\* lines 14-24, entered with index < len(lines)
GcCmd(f) ==
    LET line == f.lines[f.index + 1]
        g == [f EXCEPT !.index = f.index + 1,
                       !.reads = Append(f.reads, [idx |-> f.index, role |-> "cmd"])]
        posCmd == Find(line, CmdStr)
        Cmd == SliceFrom(line, posCmd + Len(CmdStr))
        toks == SplitWs(Cmd)
    IN  IF posCmd < 0 THEN g
        ELSE IF toks = <<>> THEN GcRaise([g EXCEPT !.Cmd = Cmd], "IndexError")
        ELSE [g EXCEPT !.Cmd = Cmd, !.Exe = toks[Len(toks)], !.pc = "dir"]

\* GcDir without the test of posDir
GcDir_NoCheck(f) ==
    IF f.index >= Len(f.lines) THEN GcRaise(f, "IndexError")
    ELSE LET line == f.lines[f.index + 1]
             g == [f EXCEPT !.index = f.index + 1,
                            !.reads = Append(f.reads, [idx |-> f.index, role |-> "dir"])]
             posDir == Find(line, DirStr)
         IN  [g EXCEPT !.Dir = SliceFrom(line, posDir + Len(DirStr)), !.pc = "test"]

\* GcDir stepping over the test-name line too when the marker is missing
GcDir_SkipTest(f) ==
    IF f.index >= Len(f.lines) THEN GcRaise(f, "IndexError")
    ELSE LET line == f.lines[f.index + 1]
             g == [f EXCEPT !.index = f.index + 1,
                            !.reads = Append(f.reads, [idx |-> f.index, role |-> "dir"])]
             posDir == Find(line, DirStr)
         IN  IF posDir < 0 THEN [g EXCEPT !.pc = "while", !.index = f.index + 2]
             ELSE [g EXCEPT !.Dir = SliceFrom(line, posDir + Len(DirStr)), !.pc = "test"]

\* GcDir leaving the loop (break for continue) when the marker is missing
GcDir_Break(f) ==
    IF f.index >= Len(f.lines) THEN GcRaise(f, "IndexError")
    ELSE LET line == f.lines[f.index + 1]
             g == [f EXCEPT !.index = f.index + 1,
                            !.reads = Append(f.reads, [idx |-> f.index, role |-> "dir"])]
             posDir == Find(line, DirStr)
         IN  IF posDir < 0 THEN [g EXCEPT !.pc = "while", !.index = Len(f.lines)]
             ELSE [g EXCEPT !.Dir = SliceFrom(line, posDir + Len(DirStr)), !.pc = "test"]

\* lines 26-34
GcDir(f) ==
    IF f.index >= Len(f.lines) THEN GcRaise(f, "IndexError")
    ELSE LET line == f.lines[f.index + 1]
             g == [f EXCEPT !.index = f.index + 1,
                            !.reads = Append(f.reads, [idx |-> f.index, role |-> "dir"])]
             posDir == Find(line, DirStr)
         IN  IF posDir < 0 THEN [g EXCEPT !.pc = "while"]
             ELSE [g EXCEPT !.Dir = SliceFrom(line, posDir + Len(DirStr)), !.pc = "test"]

\* the f-string of line 45
Record(Cmd, Exe, Dir, Test) == Cmd \o Comma \o Exe \o Comma \o Dir \o Comma \o Test

\* GcTest leaving the cursor on a line that lacks "Test"
GcTest_Reread(f) ==
    IF f.index >= Len(f.lines) THEN GcRaise(f, "IndexError")
    ELSE LET line == f.lines[f.index + 1]
             g == [f EXCEPT !.index = f.index + 1, !.pc = "while",
                            !.reads = Append(f.reads, [idx |-> f.index, role |-> "test"])]
             posTest == Find(line, TestStr)
             toks == SplitWs(line)
         IN  IF posTest < 0 THEN [g EXCEPT !.index = f.index]
             ELSE IF toks = <<>> THEN GcRaise(g, "IndexError")
             ELSE [g EXCEPT !.ctests = Append(f.ctests, Record(f.Cmd, f.Exe, f.Dir, toks[Len(toks)])),
                            !.origin = Append(f.origin, f.index - 2)]

\* lines 36-45
GcTest(f) ==
    IF f.index >= Len(f.lines) THEN GcRaise(f, "IndexError")
    ELSE LET line == f.lines[f.index + 1]
             g == [f EXCEPT !.index = f.index + 1, !.pc = "while",
                            !.reads = Append(f.reads, [idx |-> f.index, role |-> "test"])]
             posTest == Find(line, TestStr)
             toks == SplitWs(line)
         IN  IF posTest < 0 THEN g
             ELSE IF toks = <<>> THEN GcRaise(g, "IndexError")
             ELSE [g EXCEPT !.ctests = Append(f.ctests, Record(f.Cmd, f.Exe, f.Dir, toks[Len(toks)])),
                            !.origin = Append(f.origin, f.index - 2)]

\* GcReturn joining the records with ","
GcReturn_Comma(f) == [f EXCEPT !.result = Join(f.ctests, Comma), !.pc = "done"]

\* line 47
GcReturn(f) == [f EXCEPT !.result = Join(f.ctests, Semi), !.pc = "done"]

GcStep(f) ==
    CASE f.pc = "while" /\ f.index < Len(f.lines) -> GcCmd(f)
      [] f.pc = "while" /\ f.index >= Len(f.lines) -> GcReturn(f)
      [] f.pc = "dir" -> GcDir(f)
      [] f.pc = "test" -> GcTest(f)
      [] OTHER -> f

RECURSIVE GcRun(_)
GcRun(f) == IF f.pc \in {"done", "raised"} THEN f ELSE GcRun(GcStep(f))

\* the call get_ctests(ctest_output), run to its return or its exception
get_ctests(ctest_output) == GcRun(GcEnter(ctest_output))

(***************************************************************************)
(* The string helpers.                                                     *)
(***************************************************************************)
reverse_words(input_str) == Join(Reverse(SplitWs(input_str)), Semi)

\* to_upper writing ";" after every word
to_upper_Trailing(input_str) ==
    LET words == SplitWs(input_str)
    IN  Join([i \in 1..Len(words) |-> Upper(words[i]) \o Semi], <<>>)

to_upper(input_str) ==
    LET words == SplitWs(input_str)
    IN  Join([i \in 1..Len(words) |-> Upper(words[i])], Semi)

remove_vowels(input_str) ==
    Join([i \in 1..Len(SelectSeq(input_str, LAMBDA c : \A k \in 1..Len(Vowels) : Vowels[k] # c))
             |-> <<SelectSeq(input_str, LAMBDA c : \A k \in 1..Len(Vowels) : Vowels[k] # c)[i]>>], Semi)

(***************************************************************************)
(* main: the names bound in the module's global namespace when main runs   *)
(* (imports of lines 1-2, the definitions of lines 6-66, __name__ of line  *)
(* 89 and the other attributes the interpreter gives the module of a       *)
(* script), each with whether it is callable and how many positional       *)
(* parameters it takes.                                                    *)
(***************************************************************************)
\* "get_ctests"
N_get_ctests == <<103, 101, 116, 95, 99, 116, 101, 115, 116, 115>>
\* "reverse_words"
N_reverse_words == <<114, 101, 118, 101, 114, 115, 101, 95, 119, 111, 114, 100, 115>>
\* "to_upper"
N_to_upper == <<116, 111, 95, 117, 112, 112, 101, 114>>
\* "remove_vowels"
N_remove_vowels == <<114, 101, 109, 111, 118, 101, 95, 118, 111, 119, 101, 108, 115>>
\* "main"
N_main == <<109, 97, 105, 110>>
\* "sys"
N_sys == <<115, 121, 115>>
\* "re"
N_re == <<114, 101>>
\* "__name__"
N_name == <<95, 95, 110, 97, 109, 101, 95, 95>>

\* "__annotations__"
N_annotations == <<95, 95, 97, 110, 110, 111, 116, 97, 116, 105, 111, 110, 115, 95, 95>>
\* "__builtins__"
N_builtins == <<95, 95, 98, 117, 105, 108, 116, 105, 110, 115, 95, 95>>
\* "__cached__"
N_cached == <<95, 95, 99, 97, 99, 104, 101, 100, 95, 95>>
\* "__doc__"
N_doc == <<95, 95, 100, 111, 99, 95, 95>>
\* "__file__"
N_file == <<95, 95, 102, 105, 108, 101, 95, 95>>
\* "__loader__"
N_loader == <<95, 95, 108, 111, 97, 100, 101, 114, 95, 95>>
\* "__package__"
N_package == <<95, 95, 112, 97, 99, 107, 97, 103, 101, 95, 95>>
\* "__spec__"
N_spec == <<95, 95, 115, 112, 101, 99, 95, 95>>

Globals ==
    [n \in {N_get_ctests, N_reverse_words, N_to_upper, N_remove_vowels,
            N_main, N_sys, N_re, N_name, N_annotations, N_builtins, N_cached,
            N_doc, N_file, N_loader, N_package, N_spec} |->
        IF n \in {N_get_ctests, N_reverse_words, N_to_upper, N_remove_vowels}
        THEN [callable |-> TRUE, params |-> 1]
        ELSE IF n = N_main THEN [callable |-> TRUE, params |-> 0]
        ELSE [callable |-> FALSE, params |-> 0]]

\* sys.argv[1]
FunctionName(av) == av[2]

\* " ".join(sys.argv[2:])
InputArgument(av) == Join(SliceFrom(av, 2), Space)

\* func(input_argument) of line 84: what the call returns or raises
Call(fn, arg) ==
    IF Globals[fn].params # 1 THEN [exc |-> "TypeError", value |-> <<>>]
    ELSE IF fn = N_get_ctests
         THEN LET f == get_ctests(arg)
              IN  IF f.pc = "raised" THEN [exc |-> f.exc, value |-> <<>>]
                  ELSE [exc |-> "none", value |-> f.result]
    ELSE IF fn = N_reverse_words THEN [exc |-> "none", value |-> reverse_words(arg)]
    ELSE IF fn = N_to_upper THEN [exc |-> "none", value |-> to_upper(arg)]
    ELSE [exc |-> "none", value |-> remove_vowels(arg)]

(***************************************************************************)
(* State.                                                                  *)
(***************************************************************************)
VARIABLES
    ctest_output,   \* the argument of a direct call of get_ctests
    gc,             \* the frame of that call
    argv,           \* sys.argv
    mpc,            \* position of main: start, lookup, call, print, exit, raised
    func,           \* main's local func: the looked-up name, <<>> while unbound
    called,         \* history: the name main called at line 84, <<>> if none
    result,         \* main's local result
    stdout,         \* the values printed, in order
    err,            \* the exception that left main, "none" if none
    input_str,      \* the argument of a direct call of to_upper
    applied         \* the results of applying to_upper once, twice

vars == <<ctest_output, gc, argv, mpc, func, called, result, stdout, err, input_str, applied>>

gcVars == <<ctest_output, gc>>
mainVars == <<argv, mpc, func, called, result, stdout, err>>
upperVars == <<input_str, applied>>

GcInitIdle == ctest_output = <<>> /\ gc = GcIdle
MainInitIdle ==
    /\ argv = <<>> /\ mpc = "idle" /\ func = <<>> /\ called = <<>>
    /\ result = <<>> /\ stdout = <<>> /\ err = "none"
UpperInitIdle == input_str = <<>> /\ applied = <<>>

\* all sequences over S of length lo..hi
SeqsOf(S, lo, hi) == UNION {[1..n -> S] : n \in lo..hi}

(***************************************************************************)
(* get_ctests called on a transcript of up to MaxLines lines.              *)
(***************************************************************************)
\* ": Test command: /usr/bin/foo --x"
LineCmdFoo == <<58, 32, 84, 101, 115, 116, 32, 99, 111, 109, 109, 97, 110, 100, 58, 32, 47, 117, 115, 114, 47, 98, 105, 110, 47, 102, 111, 111, 32, 45, 45, 120>>
\* "1: Test command: \u000b" (a vertical tab after the marker)
LineCmdBlank == <<49, 58, 32, 84, 101, 115, 116, 32, 99, 111, 109, 109, 97, 110, 100, 58, 32, 11>>
\* ": Working Directory: /tmp"
LineDirTmp == <<58, 32, 87, 111, 114, 107, 105, 110, 103, 32, 68, 105, 114, 101, 99, 116, 111, 114, 121, 58, 32, 47, 116, 109, 112>>
\* "Test #1: mytest"
LineTestMy == <<84, 101, 115, 116, 32, 35, 49, 58, 32, 109, 121, 116, 101, 115, 116>>
LineEmpty == <<>>

LineSeq == <<LineCmdFoo, LineCmdBlank, LineDirTmp, LineTestMy, LineEmpty>>

\* the transcripts of n lines of LineSeq, joined by the caller with "_NEWLINE_"
Transcript(pick) == Join([i \in DOMAIN pick |-> LineSeq[pick[i]]], NewlineToken)

InitCtests ==
    /\ \E n \in 0..MaxLines : \E pick \in [1..n -> 1..Len(LineSeq)] :
          ctest_output = Transcript(pick)
    /\ gc = GcIdle
    /\ MainInitIdle /\ UpperInitIdle

Enter ==
    /\ gc.pc = "idle"
    /\ gc' = GcEnter(ctest_output)
    /\ UNCHANGED <<ctest_output, mainVars, upperVars>>

ReadCmd ==
    /\ gc.pc = "while" /\ gc.index < Len(gc.lines)
    /\ gc' = GcCmd(gc)
    /\ UNCHANGED <<ctest_output, mainVars, upperVars>>

ReadDir ==
    /\ gc.pc = "dir"
    /\ gc' = GcDir(gc)
    /\ UNCHANGED <<ctest_output, mainVars, upperVars>>

ReadTest ==
    /\ gc.pc = "test"
    /\ gc' = GcTest(gc)
    /\ UNCHANGED <<ctest_output, mainVars, upperVars>>

Return ==
    /\ gc.pc = "while" /\ gc.index >= Len(gc.lines)
    /\ gc' = GcReturn(gc)
    /\ UNCHANGED <<ctest_output, mainVars, upperVars>>

NextCtests == Enter \/ ReadCmd \/ ReadDir \/ ReadTest \/ Return

SpecCtests == InitCtests /\ [][NextCtests]_vars

(***************************************************************************)
(* main run on an argument list of up to MaxArgc entries.                  *)
(***************************************************************************)
\* "frontier_utils.py"
ProgName == <<102, 114, 111, 110, 116, 105, 101, 114, 95, 117, 116, 105, 108, 115, 46, 112, 121>>
\* "frobnicate"
N_frobnicate == <<102, 114, 111, 98, 110, 105, 99, 97, 116, 101>>
\* "Hello"
WordHello == <<72, 101, 108, 108, 111>>
\* "go"
WordGo == <<103, 111>>

FourNames == {N_get_ctests, N_reverse_words, N_to_upper, N_remove_vowels}
NameSet == FourNames \cup {N_main, N_sys, N_re, N_name, N_doc, N_frobnicate}
WordSet == {WordHello, WordGo, LineCmdFoo}

ArgvSet ==
    {<<ProgName>>}
    \cup {<<ProgName, n>> \o ws : n \in NameSet, ws \in SeqsOf(WordSet, 0, MaxArgc - 2)}

InitMain ==
    /\ argv \in ArgvSet
    /\ mpc = "start" /\ func = <<>> /\ called = <<>>
    /\ result = <<>> /\ stdout = <<>> /\ err = "none"
    /\ GcInitIdle /\ UpperInitIdle

\* MainArgs requiring two arguments only
MainArgs_OffByOne ==
    /\ mpc = "start"
    /\ mpc' = IF Len(argv) < 2 THEN "exit" ELSE "lookup"
    /\ UNCHANGED <<argv, func, called, result, stdout, err, gcVars, upperVars>>

\* lines 68-72: with fewer than three arguments main returns "" to line 90,
\* which discards it
MainArgs ==
    /\ mpc = "start"
    /\ mpc' = IF Len(argv) < 3 THEN "exit" ELSE "lookup"
    /\ UNCHANGED <<argv, func, called, result, stdout, err, gcVars, upperVars>>

\* lines 75-81
MainLookup ==
    /\ mpc = "lookup"
    /\ IF FunctionName(argv) \notin DOMAIN Globals
       THEN mpc' = "raised" /\ err' = "ValueError" /\ func' = func
       ELSE IF ~Globals[FunctionName(argv)].callable
       THEN mpc' = "raised" /\ err' = "ValueError" /\ func' = FunctionName(argv)
       ELSE mpc' = "call" /\ err' = err /\ func' = FunctionName(argv)
    /\ UNCHANGED <<argv, called, result, stdout, gcVars, upperVars>>

\* line 84
MainCall ==
    /\ mpc = "call"
    /\ called' = func
    /\ LET r == Call(func, InputArgument(argv))
       IN  IF r.exc # "none"
           THEN mpc' = "raised" /\ err' = r.exc /\ result' = result
           ELSE mpc' = "print" /\ err' = err /\ result' = r.value
    /\ UNCHANGED <<argv, func, stdout, gcVars, upperVars>>

\* line 87
MainPrint ==
    /\ mpc = "print"
    /\ stdout' = Append(stdout, result)
    /\ mpc' = "exit"
    /\ UNCHANGED <<argv, func, called, result, err, gcVars, upperVars>>

NextMain == MainArgs \/ MainLookup \/ MainCall \/ MainPrint

SpecMain == InitMain /\ [][NextMain]_vars

(***************************************************************************)
(* to_upper applied to a string of up to MaxLen characters of CharSet, or   *)
(* to one character that str.upper() changes or that is whitespace, then   *)
(* to its own result.                                                      *)
(***************************************************************************)
\* "a", "B", " ", ";", "\u000b" (vertical tab), "\u00df" (sharp s)
CharSet == {97, 66, 32, 59, 11, 223}

\* every character str.upper() changes, and every whitespace character
CasedOrSpace ==
    {UpperSpecial[i][1] : i \in 1..Len(UpperSpecial)}
    \cup UNION {{UpperRuns[i][1] + k * UpperRuns[i][3] :
                   k \in 0..((UpperRuns[i][2] - UpperRuns[i][1]) \div UpperRuns[i][3])} :
                 i \in 1..Len(UpperRuns)}
    \cup WhiteSpace

InitUpper ==
    /\ input_str \in SeqsOf(CharSet, 0, MaxLen) \cup {<<c>> : c \in CasedOrSpace}
    /\ applied = <<>>
    /\ GcInitIdle /\ MainInitIdle

UpperOnce ==
    /\ applied = <<>>
    /\ applied' = <<to_upper(input_str)>>
    /\ UNCHANGED <<input_str, gcVars, mainVars>>

UpperAgain ==
    /\ Len(applied) = 1
    /\ applied' = Append(applied, to_upper(applied[1]))
    /\ UNCHANGED <<input_str, gcVars, mainVars>>

NextUpper == UpperOnce \/ UpperAgain

SpecUpper == InitUpper /\ [][NextUpper]_vars

(***************************************************************************)
(* Properties of get_ctests, checked under SpecCtests.                     *)
(***************************************************************************)
\* sub in s
Has(s, sub) == \E i \in 0..(Len(s) - Len(sub)) : SubSeq(s, i + 1, i + Len(sub)) = sub

\* the 0-based line j of the frame
LineAt(j) == gc.lines[j + 1]

\* the positions in reads of a directory candidate that lacked the marker
FailedDirReads ==
    {k \in 1..Len(gc.reads) :
        gc.reads[k].role = "dir" /\ ~Has(LineAt(gc.reads[k].idx), DirStr)}

\* C1: get_ctests never raises, whatever the input.
C1_NeverRaises == gc.pc # "raised"

\* ": Test command: /usr/bin/foo --x_NEWLINE_: Working Directory: /tmp_NEWLINE_Test #1: mytest_NEWLINE_"
ExampleInput == <<58, 32, 84, 101, 115, 116, 32, 99, 111, 109, 109, 97, 110, 100, 58, 32, 47, 117, 115, 114, 47, 98, 105, 110, 47, 102, 111, 111, 32, 45, 45, 120, 95, 78, 69, 87, 76, 73, 78, 69, 95, 58, 32, 87, 111, 114, 107, 105, 110, 103, 32, 68, 105, 114, 101, 99, 116, 111, 114, 121, 58, 32, 47, 116, 109, 112, 95, 78, 69, 87, 76, 73, 78, 69, 95, 84, 101, 115, 116, 32, 35, 49, 58, 32, 109, 121, 116, 101, 115, 116, 95, 78, 69, 87, 76, 73, 78, 69, 95>>
\* "/usr/bin/foo --x,--x,/tmp,mytest"
ExampleClaimed == <<47, 117, 115, 114, 47, 98, 105, 110, 47, 102, 111, 111, 32, 45, 45, 120, 44, 45, 45, 120, 44, 47, 116, 109, 112, 44, 109, 121, 116, 101, 115, 116>>
\* "/usr/bin/foo --x,--x, /tmp,mytest"
ExampleActual == <<47, 117, 115, 114, 47, 98, 105, 110, 47, 102, 111, 111, 32, 45, 45, 120, 44, 45, 45, 120, 44, 32, 47, 116, 109, 112, 44, 109, 121, 116, 101, 115, 116>>
\* "/usr/bin/foo --x"
TokFooCmd == <<47, 117, 115, 114, 47, 98, 105, 110, 47, 102, 111, 111, 32, 45, 45, 120>>
\* "--x"
TokFooExe == <<45, 45, 120>>
\* "/tmp"
TokTmp == <<47, 116, 109, 112>>

\* the last whitespace-separated token of each line of LineSet that contains "Test"
LastTokenOf(line) ==
    CASE line = LineTestMy -> <<109, 121, 116, 101, 115, 116>>
      [] line = LineCmdFoo -> <<45, 45, 120>>
      [] line = LineCmdBlank -> <<99, 111, 109, 109, 97, 110, 100, 58>>

\* the transcript is one group ": Test command: /usr/bin/foo --x",
\* ": Working Directory: /tmp", a line containing "Test", with or without a
\* closing "_NEWLINE_"
OneGroup ==
    /\ gc.pc = "done"
    /\ Len(gc.lines) \in {3, 4}
    /\ gc.lines[1] = LineCmdFoo
    /\ gc.lines[2] = LineDirTmp
    /\ gc.lines[3] \in {LineTestMy, LineCmdFoo, LineCmdBlank}
    /\ Len(gc.lines) = 4 => gc.lines[4] = LineEmpty

\* C2 as claimed: one well-formed group ": Test command: C", ": Working
\* Directory: D", test line ending in T returns "C,E,D,T", and the example
\* input returns "/usr/bin/foo --x,--x,/tmp,mytest".
C2_Original ==
    /\ OneGroup =>
         gc.result = TokFooCmd \o <<44>> \o TokFooExe \o <<44>> \o TokTmp
                       \o <<44>> \o LastTokenOf(gc.lines[3])
    /\ (gc.pc = "done" /\ ctest_output = ExampleInput) => gc.result = ExampleClaimed

\* C2 amended: one well-formed group returns "C,E, D,T": the directory field
\* is everything after ": Working Directory:" and keeps the space before D;
\* the example input returns "/usr/bin/foo --x,--x, /tmp,mytest".
C2_OneGroup ==
    /\ OneGroup =>
         gc.result = TokFooCmd \o <<44>> \o TokFooExe \o <<44, 32>> \o TokTmp
                       \o <<44>> \o LastTokenOf(gc.lines[3])
    /\ (gc.pc = "done" /\ ctest_output = ExampleInput) => gc.result = ExampleActual

C2_Witness == gc.pc = "done" /\ ctest_output = ExampleInput /\ gc.result = ExampleActual

\* C3: a record is appended only by a step that has just read three
\* consecutive lines i, i+1, i+2 holding the command marker, the directory
\* marker and "Test" in that order, and then exactly one record is appended;
\* a step of an attempt with a failed check leaves the records alone.
C3_RecordFromThreeLines ==
    [][gc'.ctests # gc.ctests =>
          /\ gc'.ctests = Append(gc.ctests, gc'.ctests[Len(gc'.ctests)])
          /\ gc'.lines = gc.lines
          /\ gc'.index >= 3
          /\ Has(gc.lines[gc'.index - 2], CmdStr)
          /\ Has(gc.lines[gc'.index - 1], DirStr)
          /\ Has(gc.lines[gc'.index], TestStr)]_vars

C3_Witness ==
    /\ Len(gc.ctests) = 1 /\ gc.pc = "done"
    /\ \E k \in 1..Len(gc.reads) :
          gc.reads[k].role = "test" /\ ~Has(LineAt(gc.reads[k].idx), TestStr)

\* C4 as claimed: after a command line followed by a line without the
\* directory marker, the line after that one is never read as a command
\* candidate.
C4_Original ==
    \A k \in FailedDirReads :
        \A m \in 1..Len(gc.reads) :
            ~(gc.reads[m].role = "cmd" /\ gc.reads[m].idx = gc.reads[k].idx + 1)

\* C4 amended: the line that failed the directory check is never read as a
\* command candidate; the scan resumes at the line right after it (the one
\* that would have been the test-name line), which is the next line read and
\* is read as a command candidate.
C4_ResumeAfterFailedDir ==
    \A k \in FailedDirReads :
        /\ \A m \in 1..Len(gc.reads) :
              ~(gc.reads[m].role = "cmd" /\ gc.reads[m].idx = gc.reads[k].idx)
        /\ k < Len(gc.reads) =>
              gc.reads[k + 1] = [idx |-> gc.reads[k].idx + 1, role |-> "cmd"]
        /\ k = Len(gc.reads) =>
              gc.index = gc.reads[k].idx + 1 /\ gc.pc \in {"while", "done"}

C4_Witness ==
    \E k \in FailedDirReads :
        /\ k < Len(gc.reads)
        /\ gc.reads[k + 1] = [idx |-> gc.reads[k].idx + 1, role |-> "cmd"]
        /\ Has(LineAt(gc.reads[k].idx + 1), CmdStr)

\* C5: the cursor only moves forward: the lines read have strictly
\* increasing indices, so no index is read twice in any role, the cursor
\* stands right after the last line read, and there are never more reads than
\* lines.
C5_ForwardOnly ==
    /\ \A k, m \in 1..Len(gc.reads) : k < m => gc.reads[k].idx < gc.reads[m].idx
    /\ \A k \in 1..Len(gc.reads) : gc.reads[k].idx \in 0..(Len(gc.lines) - 1)
    /\ gc.reads # <<>> => gc.index = gc.reads[Len(gc.reads)].idx + 1
    /\ gc.pc # "idle" => Len(gc.reads) <= Len(gc.lines)

C5_Witness ==
    /\ gc.pc = "done" /\ Len(gc.reads) = Len(gc.lines)
    /\ FailedDirReads # {}
    /\ \E k \in 1..Len(gc.reads) :
          gc.reads[k].role = "test" /\ ~Has(LineAt(gc.reads[k].idx), TestStr)

\* the lines m, m+1, m+2 are a well-formed group
GroupAt(m) ==
    /\ m + 2 < Len(gc.lines)
    /\ Has(LineAt(m), CmdStr)
    /\ Has(LineAt(m + 1), DirStr)
    /\ Has(LineAt(m + 2), TestStr)

\* C6 as claimed: once a command line was not followed by a directory line,
\* no well-formed group that comes later is emitted.
C6_Original ==
    \A k \in FailedDirReads :
        \A r \in 1..Len(gc.origin) : gc.origin[r] <= gc.reads[k].idx

\* C6 amended: the parser is not desynchronized for the rest of the input.
\* After a command line not followed by a directory line the scan resumes at
\* the next line, and the first later well-formed group (no line with the
\* command marker between the failed directory line and the group's command
\* line) is emitted as a record once the cursor has passed it.
C6_Resynchronizes ==
    \A k \in FailedDirReads :
        \A m \in (gc.reads[k].idx + 1)..(Len(gc.lines) - 3) :
            ( /\ \A n \in (gc.reads[k].idx + 1)..(m - 1) : ~Has(LineAt(n), CmdStr)
              /\ GroupAt(m)
              /\ gc.index >= m + 3 )
            => \E r \in 1..Len(gc.origin) : gc.origin[r] = m

C6_Witness ==
    /\ gc.pc = "done"
    /\ \E k \in FailedDirReads :
          \E r \in 1..Len(gc.origin) : gc.origin[r] > gc.reads[k].idx + 1

\* the number of characters of the records before the k-th and of their ";"
RECURSIVE Offset(_, _)
Offset(recs, k) == IF k = 1 THEN 0 ELSE Offset(recs, k - 1) + Len(recs[k - 1]) + 1

\* C9: the returned string is the records in the order of their command
\* lines, each separated from the next by one ";", and nothing else; it is
\* empty when there is no record.
C9_JoinedInInputOrder ==
    gc.pc = "done" =>
        LET n == Len(gc.ctests)
        IN  /\ n = 0 => gc.result = <<>>
            /\ n > 0 => Len(gc.result) = Offset(gc.ctests, n) + Len(gc.ctests[n])
            /\ \A k \in 1..n :
                  /\ SubSeq(gc.result, Offset(gc.ctests, k) + 1,
                            Offset(gc.ctests, k) + Len(gc.ctests[k])) = gc.ctests[k]
                  /\ k > 1 => gc.result[Offset(gc.ctests, k)] = 59
            /\ Len(gc.origin) = n
            /\ \A k \in 1..n :
                  /\ Has(LineAt(gc.origin[k]), CmdStr)
                  /\ \E p \in 0..Len(LineAt(gc.origin[k])) :
                        /\ SubSeq(LineAt(gc.origin[k]), p + 1, p + Len(CmdStr)) = CmdStr
                        /\ SubSeq(gc.ctests[k], 1, Len(LineAt(gc.origin[k])) - p - Len(CmdStr) + 1)
                             = SliceFrom(LineAt(gc.origin[k]), p + Len(CmdStr)) \o <<44>>
            /\ \A k \in 1..(n - 1) : gc.origin[k] < gc.origin[k + 1]

C9_Witness ==
    /\ gc.pc = "done"
    /\ Len(gc.ctests) = 2
    /\ gc.ctests[1] # gc.ctests[2]

(***************************************************************************)
(* Properties of main, checked under SpecMain.                             *)
(***************************************************************************)
\* C7: for a function name outside get_ctests, reverse_words, to_upper,
\* remove_vowels, main calls nothing, prints nothing and ends with the
\* unknown-function error (ValueError).
C7_Original ==
    (Len(argv) >= 3 /\ FunctionName(argv) \notin FourNames) =>
        /\ called = <<>>
        /\ stdout = <<>>
        /\ mpc \notin {"call", "print", "exit"}
        /\ mpc = "raised" => err = "ValueError"

\* C8: with fewer than three arguments main looks up and calls nothing,
\* prints nothing, raises nothing and exits, whatever the function name.
C8_TooFewArguments ==
    (Len(argv) < 3 /\ mpc # "start") =>
        /\ mpc = "exit"
        /\ func = <<>>
        /\ called = <<>>
        /\ stdout = <<>>
        /\ err = "none"

C8_Witness == Len(argv) = 2 /\ FunctionName(argv) = N_frobnicate /\ mpc = "exit"

(***************************************************************************)
(* Properties of to_upper, checked under SpecUpper.                        *)
(***************************************************************************)
\* C10: to_upper(to_upper(s)) = to_upper(s) for every string s.
C10_Idempotent == Len(applied) = 2 => applied[2] = applied[1]

C10_Witness ==
    /\ Len(applied) = 2
    /\ applied[1] # input_str
    /\ \E i \in 1..Len(applied[1]) : applied[1][i] = 59
    /\ \E i \in 1..Len(input_str) : input_str[i] = 97

=============================================================================
